---- MODULE Spec2Model ----
(***************************************************************************)
(* Model of scripts/gh-import-issues.py: the CSV reader, the label         *)
(* pre-creation step, and the per-row pipeline of main (milestone          *)
(* resolution, issue creation with retry, project attach, close), run      *)
(* against a model of the repository behind the gh CLI.                    *)
(*                                                                         *)
(* Text is modelled at word granularity: a piece of text is a sequence of  *)
(* words, str.lower() lowers every word, and `token in text` is a          *)
(* contiguous-subsequence test.  Optional values are <<>> (None) or <<v>>. *)
(* Durations are in tenths of a second.                                    *)
(***************************************************************************)
EXTENDS Integers, Sequences, FiniteSets, TLC

\* ------------------------------------------------------------ bounds
MaxRows == 2
MaxRetries == 3

\* ------------------------------------------------------------ text
\* str.lower() on the words the model uses
Lower(w) ==
    CASE w = "Bug" -> "bug"
      [] w = "V1" -> "v1"
      [] w = "Timeout" -> "timeout"
      [] w = "Closed" -> "closed"
      [] w = "Fix" -> "fix"
      [] w = "Add" -> "add"
      [] w = "Docs" -> "docs"
      [] w = "Issue" -> "issue"
      [] w = "Failed" -> "failed"
      [] w = "Request" -> "request"
      [] w = "HTTP" -> "http"
      [] OTHER -> w

LowerText(t) == [i \in 1..Len(t) |-> Lower(t[i])]

\* `tok in text` for texts that are sequences of words
Contains(text, tok) ==
    \E i \in 1..(Len(text) - Len(tok) + 1) : SubSeq(text, i, i + Len(tok) - 1) = tok

\* the markers of create_issue_with_retry
TransientTokens ==
    { <<"timeout">>, <<"timed", "out">>, <<"rate", "limit">>, <<"502">>, <<"503">>,
      <<"500">>, <<"network">>, <<"temporarily", "unavailable">> }

IsTransient(msg) == \E tok \in TransientTokens : Contains(LowerText(msg), tok)

\* texts gh may print on stderr when the issue-creation call fails
CreateErrors == { <<"rate", "limit", "exceeded">>, <<"422", "validation", "failed">> }
\* text gh prints on stderr when any other call fails
GhError == <<"HTTP", "404">>

\* ------------------------------------------------------------ Optional
None == <<>>
Some(v) == <<v>>
\* `cell or None`
OrNone(cell) == IF cell = "" THEN None ELSE Some(cell)

\* ------------------------------------------------------------ read_csv
\* split_list after the cell was cut at ";": strip is the identity on the
\* words of the model, empty parts are dropped
split_list(parts) == SelectSeq(parts, LAMBDA p : p # "")

\* str.isdigit() and int() on the project_number cells of the model
IsDigit(cell) == cell \in {"0", "7"}
ToInt(cell) == IF cell = "7" THEN 7 ELSE 0

\* the raw rows a CSV file may hold (cells after csv.DictReader)
RawBasic ==
    [title |-> <<"Add", "login">>, body |-> <<>>, labels |-> <<"bug">>,
     assignees |-> <<>>, milestone |-> "", project_owner |-> "",
     project_number |-> "", state |-> "", close_reason |-> ""]
RawFull ==
    [title |-> <<"Fix", "Timeout">>, body |-> <<"details">>, labels |-> <<"Bug", "", "docs">>,
     assignees |-> <<"octocat">>, milestone |-> "v1", project_owner |-> "octo",
     project_number |-> "7", state |-> "Closed", close_reason |-> "completed"]
RawNoTitle ==
    [title |-> <<>>, body |-> <<>>, labels |-> <<"docs">>,
     assignees |-> <<>>, milestone |-> "", project_owner |-> "",
     project_number |-> "", state |-> "", close_reason |-> ""]
RawClosed ==
    [title |-> <<"Docs">>, body |-> <<>>, labels |-> <<>>,
     assignees |-> <<>>, milestone |-> "V1", project_owner |-> "octo",
     project_number |-> "x", state |-> "closed", close_reason |-> ""]

RawRows == { RawBasic, RawFull, RawNoTitle, RawClosed }

\* one IssueRow from one raw row with a title
IssueRow(raw) ==
    [title |-> raw.title,
     body |-> raw.body,
     labels |-> split_list(raw.labels),
     assignees |-> split_list(raw.assignees),
     milestone |-> OrNone(raw.milestone),
     project_owner |-> OrNone(raw.project_owner),
     project_number |-> IF raw.project_number # "" /\ IsDigit(raw.project_number)
                        THEN Some(ToInt(raw.project_number)) ELSE None,
     state |-> Lower(IF raw.state = "" THEN "open" ELSE raw.state),
     close_reason |-> OrNone(raw.close_reason)]

RECURSIVE read_csv(_)
read_csv(file) ==
    IF file = <<>> THEN <<>>
    ELSE IF Head(file).title = <<>> THEN read_csv(Tail(file))
         ELSE <<IssueRow(Head(file))>> \o read_csv(Tail(file))

RECURSIVE Skipped(_)
Skipped(file) ==
    IF file = <<>> THEN 0
    ELSE (IF Head(file).title = <<>> THEN 1 ELSE 0) + Skipped(Tail(file))

\* ------------------------------------------------------------ state
VARIABLES
    args,             \* the parsed command line
    csv,              \* the raw rows of the input file
    repo,             \* the repository behind gh: labels, milestones, issues
    pc,               \* position of main
    rows,             \* rows = read_csv(csv_path)
    existing,         \* ensure_labels: the lowered names of the existing labels
    li,               \* ensure_labels: position in all_labels
    idx,              \* main: index of the row being processed
    milestone_cache,  \* main: None or the lowered-title -> number map
    cur,              \* main: milestone_number, attempt, number, url of the row
    created,          \* main: (row index, number, url) of the rows that succeeded
    errors,           \* main: one message per failed row
    status,           \* the value main returned, None before it returns
    ncalls,           \* history: the kinds of remote call made so far, and the
                      \* number of milestone-list calls
    labelLog,         \* history: the label-list answer and the labels create was called for
    rowlog            \* history of the current row: calls, creation errors, sleeps

vars == <<args, csv, repo, pc, rows, existing, li, idx, milestone_cache, cur,
          created, errors, status, ncalls, labelLog, rowlog>>

\* the --retries / --retry-base-delay pairs tried; delays in tenths of a second
\* (0.0 s and the default 1.0 s)
RetryArgs == { <<0, 10>>, <<2, 0>>, <<MaxRetries, 10>> }

\* the command lines tried
CommandLines ==
    { [dry_run |-> d, no_label_create |-> nl, no_milestone_create |-> nm,
       retries |-> ra[1], retry_base_delay |-> ra[2]] :
      d \in BOOLEAN, nl \in BOOLEAN, nm \in BOOLEAN, ra \in RetryArgs }

\* the label sets the repository may start with
RepoLabelChoices == { {}, {"Bug"} }
\* the milestone titles the repository may start with (number = position)
RepoMilestoneChoices == { <<>>, <<"v1">> }

CallKinds == {"label_list", "label_create", "ms_list", "ms_create",
              "issue_create", "item_add", "issue_close"}
\* the calls that change the repository
MutationKinds == {"label_create", "ms_create", "issue_create", "item_add", "issue_close"}

RECURSIVE SeqsUpTo(_, _)
SeqsUpTo(S, n) ==
    IF n = 0 THEN { <<>> }
    ELSE LET shorter == SeqsUpTo(S, n - 1)
         IN shorter \cup { Append(q, x) : q \in { r \in shorter : Len(r) = n - 1 }, x \in S }

NewRow == [milestone_number |-> None, attempt |-> 0, number |-> None, url |-> None]
NewRowLog == [ops |-> <<>>, errs |-> <<>>, sleeps |-> <<>>]

Init ==
    /\ args \in CommandLines
    /\ csv \in SeqsUpTo(RawRows, MaxRows)
    /\ repo \in [labels : RepoLabelChoices, milestones : RepoMilestoneChoices,
                 issues : { <<>> }]
    /\ pc = "read_csv"
    /\ rows = <<>>
    /\ existing = {}
    /\ li = 0
    /\ idx = 0
    /\ milestone_cache = None
    /\ cur = NewRow
    /\ created = <<>>
    /\ errors = <<>>
    /\ status = None
    /\ ncalls = [kinds |-> {}, ms_list |-> 0]
    /\ labelLog = [resp |-> "none", listed |-> {}, creates |-> <<>>]
    /\ rowlog = NewRowLog

\* ------------------------------------------------------------ helpers
Bump(kind) ==
    [kinds |-> ncalls.kinds \cup {kind},
     ms_list |-> ncalls.ms_list + (IF kind = "ms_list" THEN 1 ELSE 0)]
\* several calls, one after the other
BumpAll(calls) ==
    [kinds |-> ncalls.kinds \cup { calls[i] : i \in 1..Len(calls) },
     ms_list |-> ncalls.ms_list + Cardinality({ i \in 1..Len(calls) : calls[i] = "ms_list" })]
LogOp(kind) == [rowlog EXCEPT !.ops = Append(@, kind)]

\* the label names of the model in the order sorted() gives them
LabelOrder == <<"Bug", "bug", "docs">>
\* all_labels = sorted({lbl for r in rows for lbl in r.labels})
all_labels(rs) ==
    SelectSeq(LabelOrder,
              LAMBDA l : \E i \in 1..Len(rs) : \E j \in 1..Len(rs[i].labels) : rs[i].labels[j] = l)

\* existing = set(map(str.lower, names))
LoweredSet(names) == { Lower(n) : n \in names }

\* CreatesLabel without the dry-run test
CreatesLabelInDryRun(label, have, dry_run) == Lower(label) \notin have

\* ensure_labels: whether `gh label create` is run for the label
CreatesLabel(label, have, dry_run) == Lower(label) \notin have /\ ~dry_run

\* the repository refuses a label whose name it already has in another letter case
RepoHasLabel(label) == \E r \in repo.labels : Lower(r) = Lower(label)

\* ------------------------------------------------------------ main, before the rows
\* rows = read_csv(csv_path); no rows: return 0
ReadCsv ==
    /\ pc = "read_csv"
    /\ rows' = read_csv(csv)
    /\ IF rows' = <<>>
       THEN pc' = "done" /\ status' = Some(0)
       ELSE pc' = "labels" /\ UNCHANGED status
    /\ UNCHANGED <<args, csv, repo, existing, li, idx, milestone_cache, cur, created,
                   errors, ncalls, labelLog, rowlog>>

\* ensure_labels up to its loop: nothing to do, or get_existing_labels.
\* gh_json raises on a failed call and nothing catches it; a non-list answer
\* gives no existing label.
GetExistingLabels ==
    /\ pc = "labels"
    /\ IF args.no_label_create \/ all_labels(rows) = <<>>
       THEN /\ pc' = "loop"
            /\ UNCHANGED <<existing, li, ncalls, labelLog>>
       ELSE /\ ncalls' = Bump("label_list")
            /\ \E resp \in {"list", "nonlist", "error"} :
                 /\ labelLog' = [labelLog EXCEPT !.resp = resp,
                                   !.listed = IF resp = "list" THEN repo.labels ELSE {}]
                 /\ existing' = IF resp = "list" THEN LoweredSet(repo.labels) ELSE {}
                 /\ pc' = IF resp = "error" THEN "crashed" ELSE "label_loop"
            /\ li' = 1
    /\ UNCHANGED <<args, csv, repo, rows, idx, milestone_cache, cur, created, errors,
                   status, rowlog>>

\* one turn of the loop of ensure_labels
EnsureLabel ==
    /\ pc = "label_loop"
    /\ IF li > Len(all_labels(rows))
       THEN /\ pc' = "loop"
            /\ UNCHANGED <<repo, li, ncalls, labelLog>>
       ELSE LET label == all_labels(rows)[li] IN
            /\ li' = li + 1
            /\ pc' = "label_loop"
            /\ IF CreatesLabel(label, existing, args.dry_run)
               THEN /\ ncalls' = Bump("label_create")
                    /\ labelLog' = [labelLog EXCEPT !.creates = Append(@, label)]
                    /\ \E ok \in IF RepoHasLabel(label) THEN {FALSE} ELSE BOOLEAN :
                         repo' = IF ok THEN [repo EXCEPT !.labels = @ \cup {label}] ELSE repo
               ELSE UNCHANGED <<repo, ncalls, labelLog>>
    /\ UNCHANGED <<args, csv, rows, existing, idx, milestone_cache, cur, created, errors,
                   status, rowlog>>

\* the head of the for loop over the rows
RowStart ==
    /\ pc = "loop"
    /\ IF idx < Len(rows)
       THEN /\ idx' = idx + 1
            /\ pc' = "milestone"
       ELSE /\ pc' = "summary"
            /\ UNCHANGED idx
    /\ cur' = NewRow
    /\ rowlog' = NewRowLog
    /\ UNCHANGED <<args, csv, repo, rows, existing, li, milestone_cache, created, errors,
                   status, ncalls, labelLog>>

\* RowFailed that still records the row's issue, when one was created
RowFailedKeepsCreated(e) ==
    /\ errors' = Append(errors, [idx |-> idx, title |-> rows[idx].title, e |-> e])
    /\ pc' = "loop"
    /\ created' = IF cur.number # None
                  THEN Append(created, [idx |-> idx, number |-> cur.number[1],
                                        url |-> cur.url[1]])
                  ELSE created
    /\ UNCHANGED status

\* RowFailed with the error leaving the loop instead of being caught
RowFailedAborts(e) ==
    /\ errors' = Append(errors, [idx |-> idx, title |-> rows[idx].title, e |-> e])
    /\ pc' = "crashed"
    /\ UNCHANGED <<created, status>>

\* the except clause of the loop: the row's error is recorded, the loop goes on
RowFailed(e) ==
    /\ errors' = Append(errors, [idx |-> idx, title |-> rows[idx].title, e |-> e])
    /\ pc' = "loop"
    /\ UNCHANGED <<created, status>>

\* ------------------------------------------------------------ milestones
\* get_milestones_map: lowered title -> number, a later milestone overwriting
\* an earlier one of the same lowered title
get_milestones_map(ms) ==
    [k \in { Lower(ms[i]) : i \in 1..Len(ms) } |->
        CHOOSE n \in 1..Len(ms) :
            /\ Lower(ms[n]) = k
            /\ \A m \in 1..Len(ms) : Lower(ms[m]) = k => m <= n]

\* (cache or {}).get(key)
DictGet(d, key) == IF key \in DOMAIN d THEN Some(d[key]) ELSE None
\* cache[key] = v
DictPut(d, key, v) == [k \in DOMAIN d \cup {key} |-> IF k = key THEN v ELSE d[k]]

\* CachesMilestone with the wrong threshold
CachesMilestoneAboveOne(msn) == msn > 1

\* CachesMilestone without the test of the sentinel
CachesMilestoneAlways(msn) == TRUE

\* main: `if msn > 0` before the cache is written
CachesMilestone(msn) == msn > 0

ListMilestonesFailed == <<"Failed", "to", "list", "milestones">> \o GhError
CreateMilestoneFailed(title) == <<"Failed", "to", "create", "milestone", title>> \o GhError

\* main, lines 344-347: the milestone map is read at the first row that names a milestone
LoadMilestoneCache ==
    /\ pc = "milestone"
    /\ LET row == rows[idx] IN
       IF row.milestone = None
       THEN /\ pc' = "create"
            /\ UNCHANGED <<milestone_cache, errors, ncalls, rowlog>>
       ELSE IF milestone_cache = None
       THEN /\ ncalls' = Bump("ms_list")
            /\ rowlog' = LogOp("ms_list")
            /\ \/ /\ milestone_cache' = Some(get_milestones_map(repo.milestones))
                  /\ pc' = "ms_ensure"
                  /\ UNCHANGED errors
               \/ /\ RowFailed(ListMilestonesFailed)
                  /\ UNCHANGED milestone_cache
       ELSE /\ pc' = "ms_ensure"
            /\ UNCHANGED <<milestone_cache, errors, ncalls, rowlog>>
    /\ UNCHANGED <<args, csv, repo, rows, existing, li, idx, cur, created, status, labelLog>>

\* ensure_milestone called for every title missing from the cache, whatever the flag
CallsEnsureMilestoneOnEveryMiss(key, cache) == key \notin DOMAIN cache

\* main, lines 349-353: ensure_milestone is called for a key missing from the
\* cache unless --no-milestone-create is given
CallsEnsureMilestone(key, cache) ==
    key \notin DOMAIN cache /\ ~args.no_milestone_create

\* main, lines 348-356, with ensure_milestone
EnsureMilestone ==
    /\ pc = "ms_ensure"
    /\ LET row == rows[idx]
           title == row.milestone[1]
           key == Lower(title)
           cache == milestone_cache[1]
           ms_map == get_milestones_map(repo.milestones)
           Resolved(newcache, newrepo, calls) ==
               /\ milestone_cache' = Some(newcache)
               /\ cur' = [cur EXCEPT !.milestone_number = DictGet(newcache, key)]
               /\ repo' = newrepo
               /\ ncalls' = BumpAll(calls)
               /\ rowlog' = [rowlog EXCEPT !.ops = @ \o calls]
               /\ pc' = "create"
               /\ UNCHANGED errors
           Raised(e, calls) ==
               /\ RowFailed(e)
               /\ ncalls' = BumpAll(calls)
               /\ rowlog' = [rowlog EXCEPT !.ops = @ \o calls]
               /\ UNCHANGED <<milestone_cache, cur, repo>>
           Returned(msn, newrepo, calls) ==
               Resolved(IF CachesMilestone(msn) THEN DictPut(cache, key, msn) ELSE cache,
                        newrepo, calls)
       IN
       IF ~CallsEnsureMilestone(key, cache)
       THEN Resolved(cache, repo, <<>>)
       ELSE \/ Raised(ListMilestonesFailed, <<"ms_list">>)
            \/ IF key \in DOMAIN ms_map
               THEN Returned(ms_map[key], repo, <<"ms_list">>)
               ELSE IF args.dry_run
               THEN Returned(-1, repo, <<"ms_list">>)
               ELSE \/ Returned(Len(repo.milestones) + 1,
                                [repo EXCEPT !.milestones = Append(@, title)],
                                <<"ms_list", "ms_create">>)
                    \/ Raised(CreateMilestoneFailed(title), <<"ms_list", "ms_create">>)
    /\ UNCHANGED <<args, csv, rows, existing, li, idx, created, status, labelLog>>

\* ------------------------------------------------------------ issue creation
\* program constants of main, lines 364-365 (the base delay in tenths of a second)
MinRetries == 1
MinBaseDelay == 1

Max(a, b) == IF a >= b THEN a ELSE b
\* retries=max(1, args.retries)
EffectiveRetries(r) == Max(MinRetries, r)
\* retry_base_delay=max(0.1, args.retry_base_delay)
EffectiveBaseDelay(b) == Max(MinBaseDelay, b)

\* Payload that leaves out the labels the repository does not have
PayloadOfKnownLabels(row, milestone_number) ==
    LET known == SelectSeq(row.labels, LAMBDA l : l \in repo.labels) IN
    [title |-> row.title,
     body |-> IF row.body # <<>> THEN Some(row.body) ELSE None,
     labels |-> IF known # <<>> THEN Some(known) ELSE None,
     assignees |-> IF row.assignees # <<>> THEN Some(row.assignees) ELSE None,
     milestone |-> IF milestone_number # None /\ milestone_number[1] > 0
                   THEN milestone_number ELSE None]

\* create_issue_via_api: the payload; absent keys are None
Payload(row, milestone_number) ==
    [title |-> row.title,
     body |-> IF row.body # <<>> THEN Some(row.body) ELSE None,
     labels |-> IF row.labels # <<>> THEN Some(row.labels) ELSE None,
     assignees |-> IF row.assignees # <<>> THEN Some(row.assignees) ELSE None,
     milestone |-> IF milestone_number # None /\ milestone_number[1] > 0
                   THEN milestone_number ELSE None]

\* json.dumps(payload) as text
PayloadText(p) ==
    <<"title">> \o p.title
    \o (IF p.body # None THEN <<"body">> \o p.body[1] ELSE <<>>)
    \o (IF p.labels # None THEN <<"labels">> \o p.labels[1] ELSE <<>>)
    \o (IF p.assignees # None THEN <<"assignees">> \o p.assignees[1] ELSE <<>>)
    \o (IF p.milestone # None THEN <<"milestone", ToString(p.milestone[1])>> ELSE <<>>)

\* the message of the RuntimeError of create_issue_via_api
CreateFailed(row, err, p) ==
    <<"Issue", "creation", "failed", "for">> \o row.title \o err
    \o <<"Request">> \o PayloadText(p)

\* Reraises with one attempt too many
ReraisesLate(attempt, retries, transient, dry_run) ==
    attempt > retries \/ ~transient \/ dry_run

\* create_issue_with_retry: `if attempt >= retries or not transient or dry_run: raise`
Reraises(attempt, retries, transient, dry_run) ==
    attempt >= retries \/ ~transient \/ dry_run

\* sleep_for with the exponent off by one
sleep_for_attempt(retry_base_delay, attempt) == retry_base_delay * (2 ^ attempt)

\* sleep_for = retry_base_delay * (2 ** (attempt - 1))
sleep_for(retry_base_delay, attempt) == retry_base_delay * (2 ^ (attempt - 1))

IssueUrl(n) == [tag |-> "html_url", n |-> n]
DryRunUrl == [tag |-> "<new>", n |-> -1]

\* one turn of the loop of create_issue_with_retry, with create_issue_via_api
CreateAttempt ==
    /\ pc = "create"
    /\ LET row == rows[idx]
           p == Payload(row, cur.milestone_number)
           attempt == cur.attempt + 1
           retries == EffectiveRetries(args.retries)
           base == EffectiveBaseDelay(args.retry_base_delay)
       IN
       IF args.dry_run
       THEN /\ cur' = [cur EXCEPT !.attempt = attempt, !.number = Some(-1),
                                   !.url = Some(DryRunUrl)]
            /\ pc' = "project"
            /\ UNCHANGED <<repo, errors, ncalls, rowlog>>
       ELSE /\ ncalls' = Bump("issue_create")
            /\ \/ LET n == Len(repo.issues) + 1 IN
                  /\ repo' = [repo EXCEPT !.issues =
                                Append(@, [payload |-> p, inProject |-> FALSE, closed |-> FALSE])]
                  /\ cur' = [cur EXCEPT !.attempt = attempt, !.number = Some(n),
                                         !.url = Some(IssueUrl(n))]
                  /\ rowlog' = LogOp("issue_create")
                  /\ pc' = "project"
                  /\ UNCHANGED errors
               \/ \E err \in CreateErrors :
                    LET e == CreateFailed(row, err, p) IN
                    /\ cur' = [cur EXCEPT !.attempt = attempt]
                    /\ UNCHANGED repo
                    /\ IF Reraises(attempt, retries, IsTransient(e), args.dry_run)
                       THEN /\ RowFailed(e)
                            /\ rowlog' = [rowlog EXCEPT !.ops = Append(@, "issue_create"),
                                                        !.errs = Append(@, err)]
                       ELSE /\ rowlog' = [rowlog EXCEPT !.ops = Append(@, "issue_create"),
                                              !.errs = Append(@, err),
                                              !.sleeps = Append(@, sleep_for(base, attempt))]
                            /\ pc' = "create"
                            /\ UNCHANGED errors
    /\ UNCHANGED <<args, csv, rows, existing, li, idx, milestone_cache, created, status,
                   labelLog>>

\* ------------------------------------------------------------ after creation
AddToProjectFailed == <<"Failed", "to", "add", "issue", "to", "project">> \o GhError
CloseFailed == <<"Failed", "to", "close", "issue">> \o GhError

\* HasProject that looks at the owner only
HasProjectOwnerOnly(row) == row.project_owner # None

\* `if row.project_owner and row.project_number`
HasProject(row) ==
    /\ row.project_owner # None
    /\ row.project_number # None
    /\ row.project_number[1] # 0

\* main, lines 371-373, with add_issue_to_project_v2
AddToProject ==
    /\ pc = "project"
    /\ LET row == rows[idx] IN
       IF HasProject(row) /\ ~args.dry_run
       THEN /\ ncalls' = Bump("item_add")
            /\ rowlog' = LogOp("item_add")
            /\ \/ /\ repo' = [repo EXCEPT !.issues[cur.number[1]].inProject = TRUE]
                  /\ pc' = "close"
                  /\ UNCHANGED errors
               \/ /\ RowFailed(AddToProjectFailed)
                  /\ UNCHANGED repo
       ELSE /\ pc' = "close"
            /\ UNCHANGED <<repo, errors, ncalls, rowlog>>
    /\ UNCHANGED <<args, csv, rows, existing, li, idx, milestone_cache, cur, created,
                   status, labelLog>>

\* Recorded with the number of attempts in place of the issue number
RecordedAttempts(list, i, number, url) ==
    Append(list, [idx |-> i, number |-> cur.attempt, url |-> url])

\* created.append((idx, str(number), url))
Recorded(list, i, number, url) == Append(list, [idx |-> i, number |-> number, url |-> url])

\* main, lines 375-381, with close_issue: the row is recorded as created after
\* the close step
CloseIssue ==
    /\ pc = "close"
    /\ LET row == rows[idx]
           Done == /\ created' = Recorded(created, idx, cur.number[1], cur.url[1])
                   /\ pc' = "loop"
                   /\ UNCHANGED errors
       IN
       IF row.state = "closed" /\ ~args.dry_run
       THEN /\ ncalls' = Bump("issue_close")
            /\ rowlog' = LogOp("issue_close")
            /\ \/ /\ repo' = [repo EXCEPT !.issues[cur.number[1]].closed = TRUE]
                  /\ Done
               \/ /\ RowFailed(CloseFailed)
                  /\ UNCHANGED repo
       ELSE /\ Done
            /\ UNCHANGED <<repo, ncalls, rowlog>>
    /\ UNCHANGED <<args, csv, rows, existing, li, idx, milestone_cache, cur, status,
                   labelLog>>

\* ------------------------------------------------------------ summary
\* ExitStatus that reports success whatever failed
ExitStatusZero(errs) == 0

\* main, lines 399-404
ExitStatus(errs) == IF errs # <<>> THEN 1 ELSE 0

Summary ==
    /\ pc = "summary"
    /\ status' = Some(ExitStatus(errors))
    /\ pc' = "done"
    /\ UNCHANGED <<args, csv, repo, rows, existing, li, idx, milestone_cache, cur,
                   created, errors, ncalls, labelLog, rowlog>>

Next ==
    \/ ReadCsv
    \/ GetExistingLabels
    \/ EnsureLabel
    \/ RowStart
    \/ LoadMilestoneCache
    \/ EnsureMilestone
    \/ CreateAttempt
    \/ AddToProject
    \/ CloseIssue
    \/ Summary

Spec == Init /\ [][Next]_vars

\* main runs one step after the other: every call it makes returns
FairSpec == Spec /\ WF_vars(Next)

\* ------------------------------------------------------------ properties
\* number of calls of a kind made for the current row
RowCalls(kind) == Cardinality({ i \in 1..Len(rowlog.ops) : rowlog.ops[i] = kind })
\* the row indexes recorded in a list of created or failed rows
Indexes(list) == { list[i].idx : i \in 1..Len(list) }
\* main is inside the loop over the rows, or printing the summary
InRows == pc \in {"loop", "milestone", "ms_ensure", "create", "project", "close", "summary"}

\* C1: whatever fails inside a row, the rows are started one after the other
\* in input order, every row is started and the summary is reached.
C1_EveryRowProcessed ==
    /\ [][idx' # idx => idx' = idx + 1 /\ pc' = "milestone"]_vars
    /\ (InRows ~> (pc = "done" /\ idx = Len(rows) /\ status # None))

\* a finished run in which the first row failed and a later row was created
C1_Witness ==
    /\ pc = "done"
    /\ 1 \in Indexes(errors)
    /\ 2 \in Indexes(created)

\* C2: a closed row whose close call failed is in the failure list and the issue
\* created for it is still in the created list.
C2_CloseFailureKeepsCreated ==
    \A i \in 1..Len(errors) :
        errors[i].e = CloseFailed =>
            \E j \in 1..Len(created) :
                /\ created[j].idx = errors[i].idx
                /\ created[j].url = IssueUrl(created[j].number)

\* C2 as amended: a closed row whose close call failed is in the failure list
\* and not in the created list, while its issue exists, still open, in the
\* repository.
C2_CloseFailureNotRecorded ==
    /\ \A i \in 1..Len(errors) :
          errors[i].e = CloseFailed =>
              /\ rows[errors[i].idx].state = "closed"
              /\ errors[i].idx \notin Indexes(created)
    /\ (/\ pc = "loop" /\ errors # <<>>
        /\ errors[Len(errors)].idx = idx
        /\ errors[Len(errors)].e = CloseFailed) =>
           /\ cur.number # None
           /\ cur.number[1] \in 1..Len(repo.issues)
           /\ repo.issues[cur.number[1]].payload.title = rows[idx].title
           /\ repo.issues[cur.number[1]].closed = FALSE

\* a finished run with a row whose close call failed
C2_Witness ==
    /\ pc = "done"
    /\ \E i \in 1..Len(errors) : errors[i].e = CloseFailed

\* C3: in dry-run mode no step changes the repository and no mutation call
\* (label-create, milestone-create, issue-create, item-add, issue-close) is made.
C3_DryRunNoMutation ==
    [][args.dry_run => repo' = repo /\ ncalls'.kinds \cap MutationKinds = {}]_vars

\* a finished dry run that had a label and a milestone to create and a closed
\* row with a project to attach
C3_Witness ==
    /\ args.dry_run
    /\ pc = "done"
    /\ ~args.no_label_create /\ ~args.no_milestone_create
    /\ labelLog.resp = "list"
    /\ repo.labels = {} /\ repo.milestones = <<>>
    /\ \E j \in 1..Len(created) :
         LET row == rows[created[j].idx] IN
         /\ row.labels # <<>> /\ row.milestone # None
         /\ HasProject(row) /\ row.state = "closed"

\* C4: a creation call that fails with a text holding no transient marker is the
\* only creation call of its row, no sleep follows and the row has failed.
C4_NonTransientNoRetry ==
    (rowlog.errs # <<>> /\ ~IsTransient(rowlog.errs[1])) =>
        /\ RowCalls("issue_create") = 1
        /\ rowlog.sleeps = <<>>
        /\ pc = "loop"
        /\ idx \in Indexes(errors)

\* max(1, retries) of the command line of the run
RetryCap == IF args.retries < 1 THEN 1 ELSE args.retries

\* C5: when the creation calls of a row failed k-1 times with a transient
\* message and the k-th succeeded, k calls were made, k is within the attempt
\* cap, and the finished row is in the created list with the k-th call's number
\* and url.
C5_RetriedRowIsCreated ==
    (/\ pc = "loop" /\ idx > 0 /\ ~args.dry_run
     /\ rowlog.errs # <<>> /\ cur.number # None) =>
        /\ RowCalls("issue_create") = Len(rowlog.errs) + 1
        /\ Len(rowlog.errs) + 1 <= RetryCap
        /\ \E j \in 1..Len(created) :
             created[j] = [idx |-> idx, number |-> cur.number[1],
                           url |-> IssueUrl(cur.number[1])]

\* C5 as amended: as C5, but the finished row is in the created list unless its
\* project-attach or close step failed, and then it is in the failure list.
C5_RetriedRowIsCreatedOrFailedLater ==
    (/\ pc = "loop" /\ idx > 0 /\ ~args.dry_run
     /\ rowlog.errs # <<>> /\ cur.number # None) =>
        /\ RowCalls("issue_create") = Len(rowlog.errs) + 1
        /\ Len(rowlog.errs) + 1 <= RetryCap
        /\ cur.number[1] = Len(repo.issues)
        /\ \/ /\ created # <<>>
              /\ created[Len(created)] = [idx |-> idx, number |-> cur.number[1],
                                          url |-> IssueUrl(cur.number[1])]
              /\ idx \notin Indexes(errors)
           \/ /\ errors # <<>>
              /\ errors[Len(errors)].idx = idx
              /\ errors[Len(errors)].e \in {AddToProjectFailed, CloseFailed}
              /\ idx \notin Indexes(created)

\* a row recorded as created after two failed creation calls and a third that
\* succeeded
C5_Witness ==
    /\ pc = "loop" /\ ~args.dry_run
    /\ Len(rowlog.errs) = 2
    /\ cur.number # None
    /\ idx \in Indexes(created)

\* C6: a row gets at most max(1, retries) creation calls; when that many have
\* failed the row has failed with one sleep fewer than calls; a row is never
\* started twice; the retry loop is always left.
C6_BoundedRetry ==
    /\ [](/\ RowCalls("issue_create") <= RetryCap
          /\ (Len(rowlog.errs) = RetryCap =>
                /\ pc = "loop"
                /\ errors # <<>> /\ errors[Len(errors)].idx = idx
                /\ Len(rowlog.sleeps) = RetryCap - 1
                /\ cur.number = None))
    /\ [][idx' >= idx /\ (pc = "loop" /\ idx' = idx => pc' = "summary")]_vars
    /\ (pc = "create" ~> pc # "create")

\* a row that failed after three or more creation calls that all failed
C6_Witness ==
    /\ pc = "loop"
    /\ Len(rowlog.errs) >= 3
    /\ Len(rowlog.errs) = args.retries
    /\ errors # <<>> /\ errors[Len(errors)].idx = idx

\* C7: the n-th sleep of a row's creation is the configured base delay times
\* 2^(n-1), and a finished creation slept once less than it called.
C7_SleepIsConfiguredBase ==
    /\ \A n \in 1..Len(rowlog.sleeps) :
          rowlog.sleeps[n] = args.retry_base_delay * (2 ^ (n - 1))
    /\ (pc # "create" /\ RowCalls("issue_create") > 0) =>
          Len(rowlog.sleeps) = RowCalls("issue_create") - 1

\* C7 as amended: the base is the configured base delay raised to at least
\* 0.1 s; each sleep is twice the one before.
C7_SleepIsClampedBase ==
    LET base == IF args.retry_base_delay < MinBaseDelay THEN MinBaseDelay
                ELSE args.retry_base_delay IN
    /\ \A n \in 1..Len(rowlog.sleeps) : rowlog.sleeps[n] = base * (2 ^ (n - 1))
    /\ \A n \in 2..Len(rowlog.sleeps) : rowlog.sleeps[n] = 2 * rowlog.sleeps[n - 1]
    /\ Len(rowlog.sleeps) <= Len(rowlog.errs)
    /\ (pc = "create" => Len(rowlog.sleeps) = RowCalls("issue_create"))
    /\ (pc # "create" /\ RowCalls("issue_create") > 0) =>
          Len(rowlog.sleeps) = RowCalls("issue_create") - 1

\* a creation that is over after two sleeps
C7_Witness ==
    /\ pc # "create"
    /\ Len(rowlog.sleeps) = 2
    /\ RowCalls("issue_create") = 3

\* C8: the status main returns is 1 exactly when a row failed and 0 otherwise.
C8_StatusReflectsFailures ==
    status # None =>
        /\ status = Some(1) <=> errors # <<>>
        /\ status = Some(0) <=> errors = <<>>

\* main returned 0 after it skipped a row without title, a label creation
\* failed and a row was created
C8_Witness ==
    /\ pc = "done"
    /\ status = Some(0)
    /\ Skipped(csv) > 0
    /\ created # <<>>
    /\ \E i \in 1..Len(labelLog.creates) : labelLog.creates[i] \notin repo.labels

\* C9: when the label list was read, no creation call is made for a label
\* that matches, whatever the letter case, a label the repository has.
C9_NoCreateForExistingLabel ==
    [][(/\ labelLog.resp = "list"
        /\ Len(labelLog'.creates) > Len(labelLog.creates)) =>
          ~\E r \in repo.labels :
              Lower(r) = Lower(labelLog'.creates[Len(labelLog'.creates)])]_vars

\* C10: after a label-list call that answered with an error or a non-list, the
\* set of existing labels is empty and the run goes on.
C10_LabelLookupDegrades ==
    labelLog.resp \in {"nonlist", "error"} =>
        /\ existing = {}
        /\ pc # "crashed"

\* the labels whose creation call failed
FailedLabelCreates ==
    { l \in { labelLog.creates[i] : i \in 1..Len(labelLog.creates) } : l \notin repo.labels }

\* C11: a failed label creation does not abort the run, and no issue is
\* created with that label in the labels of its payload.
C11_FailedLabelLeftOut ==
    /\ FailedLabelCreates # {} => pc # "crashed"
    /\ \A n \in 1..Len(repo.issues) :
          LET p == repo.issues[n].payload IN
          p.labels # None =>
              \A j \in 1..Len(p.labels[1]) : p.labels[1][j] \notin FailedLabelCreates

\* C11 as amended: a failed label creation does not abort the run, and every
\* issue is created with all the labels of its row in its payload, the labels
\* whose creation failed included.
C11_FailedLabelStaysInPayload ==
    /\ FailedLabelCreates # {} => pc # "crashed"
    /\ (pc = "project" /\ ~args.dry_run) =>
          repo.issues[cur.number[1]].payload.labels =
              (IF rows[idx].labels # <<>> THEN <<rows[idx].labels>> ELSE <<>>)

\* an issue was created with a label whose creation call had failed
C11_Witness ==
    /\ pc = "project"
    /\ ~args.dry_run
    /\ \E j \in 1..Len(rows[idx].labels) :
         /\ rows[idx].labels[j] \in FailedLabelCreates
         /\ repo.issues[cur.number[1]].payload.labels # None
         /\ \E k \in 1..Len(repo.issues[cur.number[1]].payload.labels[1]) :
              repo.issues[cur.number[1]].payload.labels[1][k] = rows[idx].labels[j]

\* C12: the repository never gets two milestones whose titles are equal up to
\* letter case; with auto-creation on and outside dry-run, a row that names a
\* milestone reaches its issue creation with the number of that milestone; a
\* row whose title is in the cache makes no call to resolve it.
C12_OneMilestonePerTitle ==
    /\ [](\A i, j \in 1..Len(repo.milestones) :
            Lower(repo.milestones[i]) = Lower(repo.milestones[j]) => i = j)
    /\ []((/\ ~args.dry_run /\ ~args.no_milestone_create
           /\ pc = "create" /\ rows[idx].milestone # None) =>
             \E i \in 1..Len(repo.milestones) :
                /\ Lower(repo.milestones[i]) = Lower(rows[idx].milestone[1])
                /\ cur.milestone_number = <<i>>
                /\ milestone_cache[1][Lower(rows[idx].milestone[1])] = i)
    /\ [][(/\ pc = "ms_ensure"
           /\ Lower(rows[idx].milestone[1]) \in DOMAIN milestone_cache[1]) =>
             (repo' = repo /\ rowlog' = rowlog /\ ncalls' = ncalls)]_vars

\* a finished run that created milestone v1 for its first row and attached it
\* to the issue of its second row, which names V1
C12_Witness ==
    /\ pc = "done"
    /\ ~args.dry_run
    /\ "ms_create" \in ncalls.kinds
    /\ repo.milestones = <<"v1">>
    /\ Len(rows) = 2
    /\ rows[1].milestone = <<"v1">> /\ rows[2].milestone = <<"V1">>
    /\ Len(repo.issues) = 2
    /\ repo.issues[1].payload.milestone = <<1>>
    /\ repo.issues[2].payload.milestone = <<1>>

\* C13: in a run that made no milestone-creation call, and in which no row
\* failed, the milestone list is read at most once.
C13_MilestonesListedOnce ==
    ("ms_create" \notin ncalls.kinds /\ errors = <<>>) => ncalls.ms_list <= 1

\* C14: the milestone cache holds only positive numbers, the milestone number
\* of a row is None or a positive number of the cache, the payload of a row
\* has a milestone only when that number is positive, and in dry-run a row
\* whose milestone the repository does not have gets a payload without milestone.
C14_OnlyPositiveMilestones ==
    /\ milestone_cache # None =>
          \A k \in DOMAIN milestone_cache[1] : milestone_cache[1][k] > 0
    /\ cur.milestone_number # None =>
          /\ cur.milestone_number[1] > 0
          /\ \E k \in DOMAIN milestone_cache[1] :
                milestone_cache[1][k] = cur.milestone_number[1]
    /\ pc \in {"create", "project", "close"} =>
          LET p == Payload(rows[idx], cur.milestone_number) IN
          /\ p.milestone # None => (cur.milestone_number # None /\ p.milestone[1] > 0)
          /\ (/\ args.dry_run /\ rows[idx].milestone # None
              /\ \A i \in 1..Len(repo.milestones) :
                    Lower(repo.milestones[i]) # Lower(rows[idx].milestone[1])) =>
                p.milestone = None
    /\ \A n \in 1..Len(repo.issues) :
          repo.issues[n].payload.milestone # None =>
              repo.issues[n].payload.milestone[1] \in 1..Len(repo.milestones)

\* a dry run whose second row reaches its issue creation after ensure_milestone
\* answered the sentinel for both rows
C14_Witness ==
    /\ args.dry_run /\ ~args.no_milestone_create
    /\ repo.milestones = <<>>
    /\ idx = 2 /\ pc = "create"
    /\ rows[1].milestone # None /\ rows[2].milestone # None
    /\ ncalls.ms_list = 3
    /\ milestone_cache # None
    /\ cur.milestone_number = None

\* C15: with --no-milestone-create no milestone is ever created, a row whose
\* milestone is missing goes on to its issue creation without a call and without
\* an error, and its payload and its issue have no milestone; with
\* --no-label-create no label is ever listed or created.
C15_SuppressionFlags ==
    /\ [](args.no_milestone_create => "ms_create" \notin ncalls.kinds)
    /\ [](args.no_label_create =>
            /\ ncalls.kinds \cap {"label_list", "label_create"} = {}
            /\ labelLog = [resp |-> "none", listed |-> {}, creates |-> <<>>])
    /\ [][args.no_label_create => repo'.labels = repo.labels]_vars
    /\ [][args.no_milestone_create => repo'.milestones = repo.milestones]_vars
    /\ [][(args.no_milestone_create /\ pc = "ms_ensure") =>
            (/\ pc' = "create"
             /\ errors' = errors
             /\ ncalls' = ncalls
             /\ cur'.milestone_number =
                   DictGet(milestone_cache[1], Lower(rows[idx].milestone[1])))]_vars
    /\ []((/\ args.no_milestone_create
           /\ pc \in {"create", "project", "close"}
           /\ rows[idx].milestone # None
           /\ \A i \in 1..Len(repo.milestones) :
                 Lower(repo.milestones[i]) # Lower(rows[idx].milestone[1])) =>
            /\ Payload(rows[idx], cur.milestone_number).milestone = None
            /\ (pc = "project" /\ ~args.dry_run) =>
                  repo.issues[cur.number[1]].payload.milestone = None)

\* both flags given: an issue was created for a row that names labels and a
\* milestone the repository does not have
C15_Witness ==
    /\ args.no_milestone_create /\ args.no_label_create /\ ~args.dry_run
    /\ pc = "project"
    /\ rows[idx].milestone # None /\ rows[idx].labels # <<>>
    /\ repo.milestones = <<>>
    /\ repo.labels = {}
    /\ ncalls.kinds = {"ms_list", "issue_create"}
    /\ cur.number # None
    /\ repo.issues[cur.number[1]].payload.milestone = None

\* the position of a remote call in the steps of a row
StepRank(op) ==
    CASE op \in {"ms_list", "ms_create"} -> 1
      [] op = "issue_create" -> 2
      [] op = "item_add" -> 3
      [] op = "issue_close" -> 4
\* the remote call whose failure gave the error e
FailedStep(e) ==
    IF e = ListMilestonesFailed THEN "ms_list"
    ELSE IF e = AddToProjectFailed THEN "item_add"
    ELSE IF e = CloseFailed THEN "issue_close"
    ELSE IF \E i \in 1..Len(rows) :
               rows[i].milestone # None /\ e = CreateMilestoneFailed(rows[i].milestone[1])
    THEN "ms_create"
    ELSE "issue_create"
\* the issue the current row created exists in the repository
RowIssueCreated ==
    /\ cur.number # None
    /\ cur.number[1] \in 1..Len(repo.issues)
    /\ repo.issues[cur.number[1]].payload.title = rows[idx].title
    /\ rowlog.ops[Len(rowlog.ops) - RowCalls("item_add") - RowCalls("issue_close")]
          = "issue_create"

\* C16: the remote calls of a row come in the order milestone, issue creation,
\* project attach, close; attach and close are called at most once, only after
\* the row's issue was created, attach only for a row with project owner and
\* number, close only for a row whose state is closed; the call that failed is
\* the last call of its row, and the next thing main does is to start the next row.
C16_RowStepsInOrder ==
    /\ [](\A i, j \in 1..Len(rowlog.ops) :
            i < j => StepRank(rowlog.ops[i]) <= StepRank(rowlog.ops[j]))
    /\ [](RowCalls("item_add") <= 1 /\ RowCalls("issue_close") <= 1)
    /\ [](RowCalls("item_add") > 0 =>
            /\ RowIssueCreated
            /\ rows[idx].project_owner # None
            /\ rows[idx].project_number # None)
    /\ [](RowCalls("issue_close") > 0 =>
            /\ RowIssueCreated
            /\ rows[idx].state = "closed")
    /\ []((pc = "loop" /\ idx > 0 /\ idx \in Indexes(errors)) =>
            /\ rowlog.ops # <<>>
            /\ rowlog.ops[Len(rowlog.ops)] = FailedStep(errors[Len(errors)].e)
            /\ RowCalls(FailedStep(errors[Len(errors)].e)) >= 1
            /\ FailedStep(errors[Len(errors)].e) = "item_add" =>
                  /\ RowCalls("issue_close") = 0
                  /\ ~repo.issues[cur.number[1]].inProject
                  /\ ~repo.issues[cur.number[1]].closed)
    /\ [][errors' # errors =>
            /\ pc' = "loop"
            /\ errors' = Append(errors, errors'[Len(errors')])
            /\ errors'[Len(errors')].idx = idx]_vars
    /\ [][pc = "loop" => (ncalls' = ncalls /\ repo' = repo /\ rowlog' = NewRowLog)]_vars

\* a row with a milestone, a project and the state closed: its issue was
\* created, the attach failed and the issue was left open
C16_Witness ==
    /\ pc = "loop" /\ idx > 0
    /\ errors # <<>>
    /\ errors[Len(errors)].idx = idx
    /\ errors[Len(errors)].e = AddToProjectFailed
    /\ rows[idx].state = "closed"
    /\ RowCalls("ms_create") = 1
    /\ RowCalls("issue_create") >= 2
    /\ RowCalls("item_add") = 1
    /\ RowCalls("issue_close") = 0
    /\ ~repo.issues[cur.number[1]].closed

\* C17: no label-creation call is made once the rows are being processed, and
\* when the label list was read no two creation calls of a run are for labels
\* that are equal up to letter case.
C17_OneCreatePerLabel ==
    /\ pc \in {"read_csv", "labels", "label_loop"} =>
          ncalls.kinds \subseteq {"label_list", "label_create"}
    /\ (InRows \/ pc = "done") => Len(labelLog.creates) <= Len(all_labels(rows))
    /\ labelLog.resp = "list" =>
          \A i, j \in 1..Len(labelLog.creates) :
              Lower(labelLog.creates[i]) = Lower(labelLog.creates[j]) => i = j

\* ------------------------------------------------------------ read_csv alone
\* the title and state cells a file may hold (after strip)
TitleCells == { <<>>, <<"Docs">> }
StateCells == { "", "open", "Closed", "done" }
\* raw rows that differ in the two cells the Row invariant is about
CsvRawRows ==
    { [RawBasic EXCEPT !.title = t, !.state = st] : t \in TitleCells, st \in StateCells }

\* main up to the call of read_csv, for any file over CsvRawRows
CsvInit ==
    /\ args = [dry_run |-> TRUE, no_label_create |-> TRUE, no_milestone_create |-> TRUE,
               retries |-> MinRetries, retry_base_delay |-> 10]
    /\ csv \in SeqsUpTo(CsvRawRows, MaxRows)
    /\ repo = [labels |-> {}, milestones |-> <<>>, issues |-> <<>>]
    /\ pc = "read_csv"
    /\ rows = <<>>
    /\ existing = {}
    /\ li = 0
    /\ idx = 0
    /\ milestone_cache = None
    /\ cur = NewRow
    /\ created = <<>>
    /\ errors = <<>>
    /\ status = None
    /\ ncalls = [kinds |-> {}, ms_list |-> 0]
    /\ labelLog = [resp |-> "none", listed |-> {}, creates |-> <<>>]
    /\ rowlog = NewRowLog

\* rows = read_csv(csv_path), and nothing after it
CsvSpec == CsvInit /\ [][ReadCsv]_vars

\* the raw rows of a file that have a title, in file order
Titled(file) == SelectSeq(file, LAMBDA raw : raw.title # <<>>)

\* C18: the rows read_csv yields are the rows of the file that have a title, in
\* file order; each has a non-empty title and the state open or closed.
C18_RowInvariant ==
    pc # "read_csv" =>
        /\ Len(rows) = Len(Titled(csv))
        /\ \A i \in 1..Len(rows) :
              /\ rows[i].title = Titled(csv)[i].title
              /\ rows[i].title # <<>>
              /\ rows[i].state \in {"open", "closed"}

\* C19: between two rows, every row started so far is in exactly one of
\* created and errors; both lists hold strictly increasing row indexes and
\* grow by one entry, for the current row, at a time; at the end of the run
\* their sizes add up to the number of rows.
C19_ExactlyOneRecord ==
    /\ [](\A i, j \in 1..Len(created) : i < j => created[i].idx < created[j].idx)
    /\ [](\A i, j \in 1..Len(errors) : i < j => errors[i].idx < errors[j].idx)
    /\ [](Indexes(created) \cap Indexes(errors) = {})
    /\ [](Indexes(created) \cup Indexes(errors) \subseteq 1..idx)
    /\ []((pc \in {"loop", "summary", "done"} /\ rows # <<>>) =>
            /\ Indexes(created) \cup Indexes(errors) = 1..idx
            /\ Len(created) + Len(errors) = idx)
    /\ [](pc \in {"milestone", "ms_ensure", "create", "project", "close"} =>
            /\ Indexes(created) \cup Indexes(errors) = 1..(idx - 1)
            /\ Len(created) + Len(errors) = idx - 1)
    /\ []((pc = "done" /\ status # None) => Len(created) + Len(errors) = Len(rows))
    /\ [][<<created, errors>>' # <<created, errors>> =>
            /\ pc' = "loop"
            /\ \/ /\ errors' = errors
                  /\ Len(created') = Len(created) + 1
                  /\ SubSeq(created', 1, Len(created)) = created
                  /\ created'[Len(created')].idx = idx
               \/ /\ created' = created
                  /\ Len(errors') = Len(errors) + 1
                  /\ SubSeq(errors', 1, Len(errors)) = errors
                  /\ errors'[Len(errors')].idx = idx]_vars

\* a finished run of two rows: the first row's issue was created and its close
\* call failed, the second row was created
C19_Witness ==
    /\ pc = "done"
    /\ Len(rows) = 2
    /\ Indexes(errors) = {1}
    /\ Indexes(created) = {2}
    /\ errors[1].e = CloseFailed
    /\ Len(repo.issues) = 2

====
